---- MODULE Spec2Model ----
(***************************************************************************)
(* Model of server.js: the upload handler, the debounce timer of           *)
(* scheduleBatchUpload, the refresh cycle of refreshAllLinks and the       *)
(* helpers they call.  Node runs one callback at a time, so every action   *)
(* is the code that runs between two waits on real I/O (ytdl.getInfo,      *)
(* axios.head, the two octokit calls, a timer).  An await on a promise     *)
(* that is already settled only defers to the microtask queue, which is    *)
(* emptied before any timer, request or I/O callback can run, so it does   *)
(* not end an action.                                                      *)
(***************************************************************************)
EXTENDS Integers, Sequences, FiniteSets, TLC

\* ------------------------------------------------------------------ bounds
\* The clock stops at MaxTime (minutes).
MaxTime == 8
\* Upload requests accepted in one behaviour.
MaxUploads == 3
\* URLs in the links array of one request.
MaxBatch == 2
\* URLs accepted in one behaviour, over all requests.
MaxUrls == 3
\* Firings of the scheduled (cron) trigger in one behaviour.
MaxCron == 1
\* The ids the codec is called with on its own: the numbers 1..MaxIdNumber.
MaxIdNumber == 12
\* Requests, and URLs, accepted in one behaviour of the specification with fairness.
MaxFairUrls == 2

\* ------------------------------------------------------- program constants
BATCH_WINDOW_MINUTES == 5

\* --------------------------------------------------------------- the inputs
\* The URLs submitted are told apart by a number: the k-th URL accepted is k,
\* so no URL is submitted twice and an entry is known by its originalUrl.
UrlsFrom(k, n) == [j \in 1..n |-> k + j]
Passwords == {"secret", "wrong"}
API_PASSWORD == "secret"

\* An upstream lookup (ytdl.getInfo and what follows it) succeeds or throws.
Outcomes == BOOLEAN
\* The lookups of getVideoInfo in the behaviours checked: a failed one only
\* changes title and isValid, which the coordinator copies and never reads.
InfoOutcomes == {TRUE}

\* ------------------------------------------------------------ JS strings
\* A string is the sequence of its character codes.
Chr0 == 48
Mov == <<109, 111, 118>>

StartsWith(s, p) == Len(s) >= Len(p) /\ SubSeq(s, 1, Len(p)) = p

RECURSIVE DecStr(_)
\* String(n) for a non-negative integer n.
DecStr(n) == IF n < 10 THEN <<Chr0 + n>> ELSE Append(DecStr(n \div 10), Chr0 + (n % 10))

RECURSIVE PadStart(_, _, _)
\* s.padStart(len, ch)
PadStart(s, len, ch) == IF Len(s) >= len THEN s ELSE PadStart(<<ch>> \o s, len, ch)

\* ---------------------------------------------------------- the registry
\* linkDatabase is a JS object with string keys: a sequence of [id, data]
\* in insertion order (the order of Object.entries).  An assignment to an
\* existing key keeps its place, a delete removes it.
Keys(db) == {db[k].id : k \in 1..Len(db)}
Has(db, id) == id \in Keys(db)
IndexOf(db, id) == CHOOSE k \in 1..Len(db) : db[k].id = id
Get(db, id) == db[IndexOf(db, id)].data
Put(db, id, data) ==
    IF Has(db, id) THEN [db EXCEPT ![IndexOf(db, id)].data = data]
    ELSE Append(db, [id |-> id, data |-> data])
Delete(db, id) == SelectSeq(db, LAMBDA e : e.id # id)

RECURSIVE PutAll(_, _)
\* for (const upload of uploads) linkDatabase[upload.id] = upload.data
PutAll(db, uploads) ==
    IF uploads = <<>> THEN db
    ELSE PutAll(Put(db, Head(uploads).id, Head(uploads).data), Tail(uploads))

RECURSIVE DeleteAll(_, _)
\* brokenLinks.forEach(link => delete linkDatabase[link.id])
DeleteAll(db, broken) ==
    IF broken = <<>> THEN db
    ELSE DeleteAll(Delete(db, Head(broken).id), Tail(broken))

\* generateLinkId(type): the number of keys with the prefix, plus one.
generateLinkId(db, type) ==
    LET existing == SelectSeq(db, LAMBDA e : StartsWith(e.id, type))
        nextNum == Len(existing) + 1
    IN  type \o PadStart(DecStr(nextNum), 3, Chr0)

\* ------------------------------------------------------------- resolution
\* streamUrl: null, or the stream URL that was resolved from the URL u.
NoStream == 0
StreamOf(u) == u
\* title: 'Unknown Video', or the title of the video at the URL u.
UnknownVideo == 0
TitleOf(u) == u

\* getVideoInfo(url): the title and isAvailable, by whether ytdl.getInfo threw.
getVideoInfo(url, ok) ==
    IF ok THEN [title |-> TitleOf(url), isAvailable |-> TRUE]
    ELSE [title |-> UnknownVideo, isAvailable |-> FALSE]

\* convertToStreamLink(url): streamUrl and isValid, by whether the try block threw.
convertToStreamLink(url, ok) ==
    IF ok THEN [streamUrl |-> StreamOf(url), isValid |-> TRUE]
    ELSE [streamUrl |-> NoStream, isValid |-> FALSE]

VARIABLES
    now,             \* the wall clock, in minutes
    linkDatabase,    \* the registry
    pendingUploads,  \* sequence of [id, data]
    isRefreshing,    \* the guard of refreshAllLinks
    refreshTimer,    \* the handle scheduleBatchUpload keeps: 0 is null, else a timer's handle
    timers,          \* the timeouts outstanding in the event loop: set of [handle, due]
    req,             \* the upload request in flight, per connection
    cycle,           \* the frame of the refreshAllLinks call that is running
    out,             \* what the last step sent or printed: the status of a response, the
                     \* console lines that tell a skip or a failure
    hist,            \* what has happened so far: the counts the bounds limit, and the
                     \* observations the properties read
    codec            \* the last call of LinkEncoder made on its own: its argument and
                     \* what it returned

vars == <<now, linkDatabase, pendingUploads, isRefreshing, refreshTimer, timers, req, cycle, out, hist,
          codec>>

\* ------------------------------------------------------------------ codec
Pad == 61
\* The character of the base64 alphabet with value v.
B64Char(v) ==
    IF v < 26 THEN 65 + v
    ELSE IF v < 52 THEN 97 + (v - 26)
    ELSE IF v < 62 THEN 48 + (v - 52)
    ELSE IF v = 62 THEN 43 ELSE 47

RECURSIVE Base64(_)
\* Buffer.from(bytes).toString('base64')
Base64(b) ==
    IF Len(b) = 0 THEN <<>>
    ELSE IF Len(b) = 1 THEN
        <<B64Char(b[1] \div 4), B64Char((b[1] % 4) * 16), Pad, Pad>>
    ELSE IF Len(b) = 2 THEN
        <<B64Char(b[1] \div 4), B64Char((b[1] % 4) * 16 + b[2] \div 16),
          B64Char((b[2] % 16) * 4), Pad>>
    ELSE <<B64Char(b[1] \div 4), B64Char((b[1] % 4) * 16 + b[2] \div 16),
           B64Char((b[2] % 16) * 4 + b[3] \div 64), B64Char(b[3] % 64)>>
         \o Base64(SubSeq(b, 4, Len(b)))

\* What Math.random().toString(36).substring(2, 5) can return: three
\* characters as a rule ("x7q"), fewer when the fraction is short in base 36
\* (0.5 is "0.i" and gives "i", 0 is "0" and gives "").
Suffixes == {<<120, 55, 113>>, <<105>>}

\* LinkEncoder.encode(id), with the random characters drawn.
encode(id, random) == SelectSeq(Base64(id), LAMBDA ch : ch # Pad) \o random

\* encodedId.slice(0, -3)
Slice3(s) == IF Len(s) <= 3 THEN <<>> ELSE SubSeq(s, 1, Len(s) - 3)

\* The value of a character of the base64 alphabet (Node also takes the
\* url-safe '-' and '_'), -1 for any other character.
B64Value(ch) ==
    IF ch >= 65 /\ ch <= 90 THEN ch - 65
    ELSE IF ch >= 97 /\ ch <= 122 THEN ch - 97 + 26
    ELSE IF ch >= 48 /\ ch <= 57 THEN ch - 48 + 52
    ELSE IF ch = 43 \/ ch = 45 THEN 62
    ELSE IF ch = 47 \/ ch = 95 THEN 63
    ELSE 0 - 1

RECURSIVE UpToPad(_)
\* The characters before the first '='.
UpToPad(s) ==
    IF s = <<>> \/ Head(s) = Pad THEN <<>> ELSE <<Head(s)>> \o UpToPad(Tail(s))

RECURSIVE GroupBytes(_)
\* The bytes of a sequence of 6-bit values: three per full group of four, one
\* for two values left over, two for three, none for one.
GroupBytes(v) ==
    IF Len(v) < 2 THEN <<>>
    ELSE IF Len(v) = 2 THEN <<v[1] * 4 + v[2] \div 16>>
    ELSE IF Len(v) = 3 THEN <<v[1] * 4 + v[2] \div 16, (v[2] % 16) * 16 + v[3] \div 4>>
    ELSE <<v[1] * 4 + v[2] \div 16, (v[2] % 16) * 16 + v[3] \div 4, (v[3] % 4) * 64 + v[4]>>
         \o GroupBytes(SubSeq(v, 5, Len(v)))

\* Buffer.from(s, 'base64'): decoding ends at the first '=', a character
\* outside the alphabet is skipped, and nothing is thrown.
FromBase64(s) ==
    LET legal  == SelectSeq(UpToPad(s), LAMBDA ch : B64Value(ch) >= 0)
        values == [k \in 1..Len(legal) |-> B64Value(legal[k])]
    IN  GroupBytes(values)

\* buffer.toString(): a byte below 128 is its character, a byte that is no
\* valid UTF-8 becomes U+FFFD.
BufferToString(bytes) == [k \in 1..Len(bytes) |-> IF bytes[k] < 128 THEN bytes[k] ELSE 65533]

\* LinkEncoder.decode(encodedId): isNull tells the return null of the catch
\* block, which Buffer.from never reaches for a string.
decode(encodedId) ==
    [isNull |-> FALSE, value |-> BufferToString(FromBase64(Slice3(encodedId) \o <<Pad, Pad>>))]

\* The draws of one pass over n keys, one per call of encode.
RandomDraws(n) == [1..n -> Suffixes]

\* The last key left out of githubData.
BuildMappingShort(db, rnd) ==
    {[key |-> encode(db[k].id, rnd[k]), url |-> db[k].data.streamUrl,
      title |-> db[k].data.title] : k \in 1..(Len(db) - 1)}

\* githubData of updateLinksFile: encodedId -> {url, title}, one per key.
BuildMapping(db, rnd) ==
    {[key |-> encode(db[k].id, rnd[k]), url |-> db[k].data.streamUrl,
      title |-> db[k].data.title] : k \in 1..Len(db)}

\* ------------------------------------------------------------ health check
\* The outcomes of axios.head: the status of a response, 0 for no response.
\* axios resolves for 2xx only: any other status, a timeout or a transport
\* failure rejects with a message.
ProbeOutcomes == {200, 204, 404}

\* LinkHealthChecker.checkLink(streamUrl), by the outcome of axios.head.
checkLink(outcome) ==
    IF outcome >= 200 /\ outcome < 300
    THEN [isActive |-> (outcome = 200), status |-> outcome, error |-> "null"]
    ELSE [isActive |-> FALSE, status |-> outcome,
          error |-> IF outcome = 0 THEN "timeout of 10000ms exceeded"
                    ELSE "Request failed with status code"]

\* The reason always built from the status.
ReasonFromStatus(healthCheck) == [text |-> "HTTP", status |-> healthCheck.status]

\* healthCheck.error || `HTTP ${healthCheck.status}`
Reason(healthCheck) ==
    IF healthCheck.error # "null" THEN [text |-> healthCheck.error, status |-> 0]
    ELSE [text |-> "HTTP", status |-> healthCheck.status]

NoStreamReason == [text |-> "No stream URL", status |-> 0]

BrokenLink(e, reason) ==
    [id |-> e.id, title |-> e.data.title, reason |-> reason,
     originalUrl |-> e.data.originalUrl]

\* ------------------------------------------------------- the cycle's frame
IdleCycle ==
    [pc |-> "idle", entries |-> <<>>, i |-> 0, brokenLinks |-> <<>>,
     results |-> [total |-> 0, active |-> 0, broken |-> 0],
     notifications |-> <<>>, mapping |-> {}, fileSha |-> "null",
     startUrls |-> {}, okUrls |-> {}, publishCalls |-> 0]

\* The entries of a registry, each known by its originalUrl.
Entries(db) == {db[k].data.originalUrl : k \in 1..Len(db)}

RECURSIVE HealthScan(_)
\* The loop of checkAllLinks from entry c.i on, up to the next axios.head:
\* an entry with no streamUrl is broken without a probe.
HealthScan(c) ==
    IF c.i > Len(c.entries) THEN [c EXCEPT !.pc = "healthDone"]
    ELSE IF c.entries[c.i].data.streamUrl = NoStream
    THEN HealthScan([c EXCEPT !.results.total = @ + 1,
                              !.results.broken = @ + 1,
                              !.brokenLinks = Append(@, BrokenLink(c.entries[c.i], NoStreamReason)),
                              !.i = @ + 1])
    ELSE [c EXCEPT !.pc = "probe", !.results.total = @ + 1]

\* The prune left out.
PrunedNothing(db, brokenLinks) == db

\* The registry after the prune of refreshAllLinks.
Pruned(db, brokenLinks) ==
    IF Len(brokenLinks) > 0 THEN DeleteAll(db, brokenLinks) ELSE db

\* The loop over Object.entries(linkDatabase) of refreshAllLinks, up to the
\* next convertToStreamLink; after the last entry updateLinksFile builds
\* githubData and waits for getContent.  Every entry has an originalUrl, so
\* the loop skips none.
ResolveScan(db, c, rnd, printed) ==
    IF c.i <= Len(c.entries)
    THEN [db |-> db, cyc |-> [c EXCEPT !.pc = "resolve"], out |-> printed]
    ELSE [db |-> db,
          cyc |-> [c EXCEPT !.pc = "getContent", !.mapping = BuildMapping(db, rnd),
                            !.publishCalls = @ + 1],
          out |-> printed]

\* refreshAllLinks after checkAllLinks returned: the notification, the prune,
\* then the loop of re-resolutions over the entries that are left.
AfterHealth(db, c, rnd, printed) ==
    LET some == Len(c.brokenLinks) > 0
        db2 == Pruned(db, c.brokenLinks)
        c2  == [c EXCEPT !.notifications = IF some THEN Append(@, c.brokenLinks) ELSE @,
                         !.entries = db2, !.i = 1]
    IN  ResolveScan(db2, c2, rnd, printed)

\* The prune and what follows it not held back until the probes are done.
ContinueEager(db, c, rnd, printed) == AfterHealth(db, HealthScan(c), rnd, printed)

\* The health phase from entry c.i on, and what follows it when no probe is left.
Continue(db, c, rnd, printed) ==
    LET h == HealthScan(c)
    IN  IF h.pc = "probe" THEN [db |-> db, cyc |-> h, out |-> printed]
        ELSE AfterHealth(db, h, rnd, printed)

\* The body of refreshAllLinks from isRefreshing = true to its first wait.
StartCycle(db, rnd, printed) ==
    Continue(db, [IdleCycle EXCEPT !.pc = "health", !.entries = db, !.i = 1,
                                   !.startUrls = Entries(db)],
             rnd, printed)

\* ------------------------------------------------------------------- Init
IdleReq ==
    [pc |-> "idle", links |-> <<>>, results |-> <<>>, title |-> UnknownVideo,
     isAvailable |-> FALSE]

Conns == {"c1"}

\* No call of LinkEncoder made on its own yet.
IdleCodec == [pc |-> "idle", id |-> <<>>, token |-> <<>>, decoded |-> [isNull |-> TRUE, value |-> <<>>]]

Init ==
    /\ now = 0
    /\ linkDatabase = <<>>
    /\ pendingUploads = <<>>
    /\ isRefreshing = FALSE
    /\ refreshTimer = 0
    /\ timers = {}
    /\ req = [c \in Conns |-> IdleReq]
    /\ cycle = IdleCycle
    /\ out = <<>>
    /\ codec = IdleCodec
    /\ hist = [issued |-> {}, uploads |-> 0, urls |-> 0, crons |-> 0,
               timeouts |-> 0, activeCycles |-> 0, arms |-> <<>>, carried |-> FALSE,
               drains |-> <<>>]

\* A step that sends and prints nothing.
Quiet == out' = <<>>

\* What convertToStreamLink prints: a line when it fails.
ConversionLog(ok) == IF ok THEN <<>> ELSE <<"YouTube conversion error">>

\* ------------------------------------------------------- the upload handler
\* setTimeout left out: the timeout armed before is cleared and none is armed.
scheduleCleared(ts, rt, h, t) == IF rt # 0 THEN {x \in ts : x.handle # rt} ELSE ts

\* clearTimeout left out: the timeout armed before stays outstanding.
scheduleWithoutClear(ts, rt, h, t) ==
    ts \cup {[handle |-> h, due |-> t + BATCH_WINDOW_MINUTES]}

\* scheduleBatchUpload: the timeouts outstanding after it, h the new handle.
scheduleBatchUpload(ts, rt, h, t) ==
    LET cleared == IF rt # 0 THEN {x \in ts : x.handle # rt} ELSE ts
    IN  cleared \cup {[handle |-> h, due |-> t + BATCH_WINDOW_MINUTES]}

\* What the history records of a call of scheduleBatchUpload by a request of
\* n URLs: a burst begins when no timeout is outstanding, and goes on while
\* one is.  arms are the times of the calls of the burst, carried tells
\* whether one of its requests pushed a URL, drains are the times the pending
\* uploads were merged since the burst began.
Armed(h, n) ==
    IF timers = {}
    THEN [h EXCEPT !.timeouts = @ + 1, !.arms = <<now>>, !.carried = (n > 0),
                   !.drains = <<>>]
    ELSE [h EXCEPT !.timeouts = @ + 1, !.arms = Append(@, now),
                   !.carried = (@ \/ n > 0)]

\* The end of the handler: scheduleBatchUpload() and res.json(...).
Respond(c, results, h, printed) ==
    /\ timers' = scheduleBatchUpload(timers, refreshTimer, hist.timeouts + 1, now)
    /\ refreshTimer' = hist.timeouts + 1
    /\ req' = [req EXCEPT ![c] = IdleReq]
    /\ out' = Append(printed, "200")
    /\ hist' = Armed(h, Len(results))

\* The rejected request arms the timeout all the same.
UploadRejectedArmed(c, password, isArray) ==
    /\ req[c].pc = "idle"
    /\ password # API_PASSWORD \/ ~isArray
    /\ out' = IF password # API_PASSWORD THEN <<"401">> ELSE <<"400">>
    /\ timers' = scheduleBatchUpload(timers, refreshTimer, hist.timeouts + 1, now)
    /\ refreshTimer' = hist.timeouts + 1
    /\ hist' = Armed(hist, 0)
    /\ UNCHANGED <<codec, now, linkDatabase, pendingUploads, isRefreshing, req, cycle>>

\* app.post('/api/upload') with a wrong password or with links that is no
\* array: the response, and nothing else.
UploadRejected(c, password, isArray) ==
    /\ req[c].pc = "idle"
    /\ password # API_PASSWORD \/ ~isArray
    /\ out' = IF password # API_PASSWORD THEN <<"401">> ELSE <<"400">>
    /\ UNCHANGED <<codec, now, linkDatabase, pendingUploads, isRefreshing, refreshTimer, timers,
                   req, cycle, hist>>

\* app.post('/api/upload') with the password and an array of n URLs, up to
\* its first wait.
UploadRequest(c, n) ==
    /\ req[c].pc = "idle"
    /\ hist.uploads < MaxUploads
    /\ hist.urls + n <= MaxUrls
    /\ LET links == UrlsFrom(hist.urls, n) IN
       IF links = <<>>
       THEN Respond(c, <<>>, [hist EXCEPT !.uploads = @ + 1], <<>>)
       ELSE /\ req' = [req EXCEPT ![c] = [IdleReq EXCEPT !.pc = "info", !.links = links]]
            /\ hist' = [hist EXCEPT !.uploads = @ + 1, !.urls = @ + Len(links)]
            /\ Quiet
            /\ UNCHANGED <<timers, refreshTimer>>
    /\ UNCHANGED <<codec, now, linkDatabase, pendingUploads, isRefreshing, cycle>>

\* getVideoInfo(url) has returned.
GetInfoDone(c, ok) ==
    /\ req[c].pc = "info"
    /\ LET videoInfo == getVideoInfo(Head(req[c].links), ok)
       IN  req' = [req EXCEPT ![c].pc = "convert", ![c].title = videoInfo.title,
                              ![c].isAvailable = videoInfo.isAvailable]
    /\ Quiet
    /\ UNCHANGED <<codec, now, linkDatabase, pendingUploads, isRefreshing, refreshTimer, timers,
                   cycle, hist>>

\* The pending set after pendingUploads.push({id, data}).
Pushed(pending, id, data) == Append(pending, [id |-> id, data |-> data])

\* convertToStreamLink(url) has returned: the id, the push, then the next url
\* or the end of the handler.
ConvertDone(c, ok) ==
    /\ req[c].pc = "convert"
    /\ LET url == Head(req[c].links)
           streamData == convertToStreamLink(url, ok)
           linkId == generateLinkId(linkDatabase, Mov)
           linkData == [originalUrl |-> url,
                        streamUrl |-> streamData.streamUrl, title |-> req[c].title,
                        lastRefreshed |-> now,
                        isValid |-> (streamData.isValid /\ req[c].isAvailable)]
           rest == Tail(req[c].links)
           results == Append(req[c].results, linkId)
           h == [hist EXCEPT !.issued = @ \cup {linkId}]
       IN  /\ pendingUploads' = Pushed(pendingUploads, linkId, linkData)
           /\ IF rest # <<>>
              THEN /\ req' = [req EXCEPT ![c] = [IdleReq EXCEPT !.pc = "info", !.links = rest,
                                                              !.results = results]]
                   /\ hist' = h
                   /\ out' = ConversionLog(ok)
                   /\ UNCHANGED <<timers, refreshTimer>>
              ELSE Respond(c, results, h, ConversionLog(ok))
    /\ UNCHANGED <<codec, now, linkDatabase, isRefreshing, cycle>>

\* ------------------------------------------------------------ the triggers
\* The guard left out: every call starts a cycle.
NeverRefreshing == FALSE

\* if (isRefreshing) of refreshAllLinks.
AlreadyRefreshing == isRefreshing

\* A call of refreshAllLinks() on the registry db, up to its first wait.
refreshAllLinks(db, rnd, h, printed) ==
    IF AlreadyRefreshing
    THEN /\ linkDatabase' = db
         /\ hist' = h
         /\ out' = Append(printed, "Refresh already in progress, skipping")
         /\ UNCHANGED <<isRefreshing, cycle>>
    ELSE LET r == StartCycle(db, rnd, printed)
         IN  /\ isRefreshing' = TRUE
             /\ linkDatabase' = r.db
             /\ cycle' = r.cyc
             /\ out' = r.out
             /\ hist' = [h EXCEPT !.activeCycles = @ + 1]

\* The registry after the callback of the timeout merged the pending uploads.
Drained(db, uploads) == PutAll(db, uploads)

\* The pending uploads kept after the merge.
NotEmptied(pending) == pending

\* pendingUploads = [] in the callback of the timeout.
Emptied(pending) == <<>>

\* The callback of setTimeout runs.  A timeout runs when it is due.
TimerFire(t, rnd) ==
    /\ t \in timers
    /\ t.due = now
    /\ timers' = timers \ {t}
    /\ IF Len(pendingUploads) > 0
       THEN /\ pendingUploads' = Emptied(pendingUploads)
            /\ refreshAllLinks(Drained(linkDatabase, pendingUploads), rnd,
                               [hist EXCEPT !.drains = Append(@, now)],
                               <<>>)
       ELSE /\ Quiet
            /\ UNCHANGED <<pendingUploads, linkDatabase, isRefreshing, cycle, hist>>
    /\ UNCHANGED <<codec, now, refreshTimer, req>>

\* cron.schedule's callback runs.
CronFire(rnd) ==
    /\ hist.crons < MaxCron
    /\ refreshAllLinks(linkDatabase, rnd, [hist EXCEPT !.crons = @ + 1], <<>>)
    /\ UNCHANGED <<codec, now, pendingUploads, refreshTimer, timers, req>>

\* The clock runs on to the time the next timeout is due.
WindowElapses ==
    /\ timers # {}
    /\ \A t \in timers : t.due > now
    /\ now' = CHOOSE d \in {t.due : t \in timers} : \A t \in timers : d <= t.due
    /\ Quiet
    /\ UNCHANGED <<codec, linkDatabase, pendingUploads, isRefreshing, refreshTimer, timers, req,
                   cycle, hist>>

\* A minute passes; no timeout is left behind.
Tick ==
    /\ now < MaxTime
    /\ \A t \in timers : t.due > now
    /\ now' = now + 1
    /\ Quiet
    /\ UNCHANGED <<codec, linkDatabase, pendingUploads, isRefreshing, refreshTimer, timers, req,
                   cycle, hist>>

\* ---------------------------------------------------------------- the cycle
\* The guard left set when the cycle ends.
FinishedGuardSet(h) ==
    /\ isRefreshing' = isRefreshing
    /\ cycle' = IdleCycle
    /\ hist' = [h EXCEPT !.activeCycles = @ - 1]

\* The finally block of refreshAllLinks.
Finished(h) ==
    /\ isRefreshing' = FALSE
    /\ cycle' = IdleCycle
    /\ hist' = [h EXCEPT !.activeCycles = @ - 1]

\* axios.head has settled for entry cycle.i.
ProbeDone(outcome, rnd) ==
    /\ cycle.pc = "probe"
    /\ LET e == cycle.entries[cycle.i]
           healthCheck == checkLink(outcome)
           c1 == IF healthCheck.isActive
                 THEN [cycle EXCEPT !.pc = "health", !.i = @ + 1,
                                    !.results.active = @ + 1,
                                    !.okUrls = @ \cup {e.data.originalUrl}]
                 ELSE [cycle EXCEPT !.pc = "health", !.i = @ + 1,
                                    !.results.broken = @ + 1,
                                    !.brokenLinks = Append(@, BrokenLink(e, Reason(healthCheck)))]
           r == Continue(linkDatabase, c1, rnd, <<>>)
       IN  /\ linkDatabase' = r.db
           /\ cycle' = r.cyc
           /\ out' = r.out
    /\ UNCHANGED <<codec, now, pendingUploads, isRefreshing, refreshTimer, timers, req, hist>>

\* The isValid test left out: a failed re-resolution writes its null streamUrl.
RefreshedUnchecked(db, id, newStreamData, t) ==
    [db EXCEPT ![IndexOf(db, id)].data.streamUrl = newStreamData.streamUrl,
               ![IndexOf(db, id)].data.lastRefreshed = t]

\* The registry after the re-resolution of id returned newStreamData at time t.
Refreshed(db, id, newStreamData, t) ==
    IF newStreamData.isValid
    THEN [db EXCEPT ![IndexOf(db, id)].data.streamUrl = newStreamData.streamUrl,
                    ![IndexOf(db, id)].data.lastRefreshed = t]
    ELSE db

\* convertToStreamLink has returned for entry cycle.i of the second loop.  The
\* assignment to linkDatabase[linkId] throws when the key is gone; the catch
\* and the finally of refreshAllLinks then end the cycle.
ResolveDone(ok, rnd) ==
    /\ cycle.pc = "resolve"
    /\ LET e == cycle.entries[cycle.i]
           newStreamData == convertToStreamLink(e.data.originalUrl, ok)
       IN  IF newStreamData.isValid /\ ~Has(linkDatabase, e.id)
           THEN /\ Finished(hist)
                /\ out' = <<"Refresh error">>
                /\ UNCHANGED linkDatabase
           ELSE LET r == ResolveScan(Refreshed(linkDatabase, e.id, newStreamData, now),
                                     [cycle EXCEPT !.i = @ + 1], rnd, ConversionLog(ok))
                IN  /\ linkDatabase' = r.db
                    /\ cycle' = r.cyc
                    /\ out' = r.out
                    /\ UNCHANGED <<isRefreshing, hist>>
    /\ UNCHANGED <<codec, now, pendingUploads, refreshTimer, timers, req>>

\* octokit.rest.repos.getContent has settled: the sha of links.json, or none.
GetContentDone(found) ==
    /\ cycle.pc = "getContent"
    /\ cycle' = [cycle EXCEPT !.pc = "putContent",
                              !.fileSha = IF found THEN "sha" ELSE "null"]
    /\ Quiet
    /\ UNCHANGED <<codec, now, linkDatabase, pendingUploads, isRefreshing, refreshTimer, timers,
                   req, hist>>

\* The first line generateRefreshLog prints.
Summary == "REFRESH COMPLETE"

\* createOrUpdateFileContents has settled: updateLinksFile returns true or
\* false, generateRefreshLog prints the summary and the finally block runs.
PutContentDone(ok) ==
    /\ cycle.pc = "putContent"
    /\ Finished(hist)
    /\ out' = IF ok THEN <<Summary>> ELSE <<"GitHub update failed", Summary>>
    /\ UNCHANGED <<codec, now, linkDatabase, pendingUploads, refreshTimer, timers, req>>

\* ------------------------------------------------------------------- Next
Uploads(infoOutcomes) ==
    \/ \E c \in Conns, n \in 0..MaxBatch : UploadRequest(c, n)
    \/ \E c \in Conns, ok \in infoOutcomes : GetInfoDone(c, ok)
    \/ \E c \in Conns, ok \in Outcomes : ConvertDone(c, ok)

Cycles ==
    \/ \E outcome \in ProbeOutcomes, rnd \in RandomDraws(Len(linkDatabase)) :
           ProbeDone(outcome, rnd)
    \/ \E ok \in Outcomes, rnd \in RandomDraws(Len(linkDatabase)) : ResolveDone(ok, rnd)
    \/ \E found \in BOOLEAN : GetContentDone(found)
    \/ \E ok \in BOOLEAN : PutContentDone(ok)

Timeouts ==
    \E t \in timers, rnd \in RandomDraws(Len(linkDatabase) + Len(pendingUploads)) :
        TimerFire(t, rnd)

\* The coordinator, the clock running from one timeout to the next.
Next ==
    \/ Uploads(InfoOutcomes)
    \/ Timeouts
    \/ \E rnd \in RandomDraws(Len(linkDatabase)) : CronFire(rnd)
    \/ Cycles
    \/ WindowElapses

Spec == Init /\ [][Next]_vars

\* The coordinator minute by minute, with the requests the handler rejects.
NextMinutes ==
    \/ \E c \in Conns, password \in Passwords, isArray \in BOOLEAN :
           UploadRejected(c, password, isArray)
    \/ Uploads(InfoOutcomes)
    \/ Timeouts
    \/ Cycles
    \/ Tick

SpecMinutes == Init /\ [][NextMinutes]_vars

\* A lookup of a request in flight settles.
Lookups ==
    \/ \E c \in Conns, ok \in InfoOutcomes : GetInfoDone(c, ok)
    \/ \E c \in Conns, ok \in Outcomes : ConvertDone(c, ok)

\* The coordinator when what it waits for comes: a call to the network
\* settles (axios.head has a timeout, the others end with the connection),
\* the clock reaches the time a timeout is due, and a timeout that is due runs.
\* No request has to arrive and the scheduled trigger does not have to fire.
Fairness ==
    /\ WF_vars(Cycles)
    /\ WF_vars(Lookups)
    /\ WF_vars(WindowElapses)
    /\ WF_vars(Timeouts)

\* The behaviours checked for what happens in the end: those of Next in which
\* at most MaxFairUrls requests are accepted, with at most MaxFairUrls URLs.
NextFair ==
    \/ \E c \in Conns, n \in 0..MaxBatch :
           /\ hist.uploads < MaxFairUrls
           /\ hist.urls + n <= MaxFairUrls
           /\ UploadRequest(c, n)
    \/ Lookups
    \/ Timeouts
    \/ \E rnd \in RandomDraws(Len(linkDatabase)) : CronFire(rnd)
    \/ Cycles
    \/ WindowElapses

SpecFair == Init /\ [][NextFair]_vars /\ Fairness

\* ------------------------------------------------------------- properties
\* The steps the properties speak of, told by what they change.
\* The callback of the timeout merges the pending uploads into the registry.
DrainStep == Len(pendingUploads) > 0 /\ pendingUploads' = <<>>
\* The scheduled trigger calls refreshAllLinks.
CronStep == hist'.crons # hist.crons
\* refreshAllLinks is called: by the scheduled trigger, or after a drain.
InvokeStep == CronStep \/ DrainStep
\* A call of refreshAllLinks gets past the guard.
CycleStarts == hist'.activeCycles > hist.activeCycles
\* The finally block of refreshAllLinks runs.
CycleEnds == hist'.activeCycles < hist.activeCycles
\* generateLinkId returns an id, which is pushed with its entry.
AllocateStep == Len(pendingUploads') = Len(pendingUploads) + 1
NewId == pendingUploads'[Len(pendingUploads')].id
SkipLine == "Refresh already in progress, skipping"
Printed(line) == \E k \in 1..Len(out) : out[k] = line

\* C1: the drain and a refresh cycle exclude each other: no drain writes to
\* the registry while isRefreshing is true, and while a cycle runs the
\* registry changes only in the steps of that cycle.
C1_SingleWriter ==
    [][/\ DrainStep => ~isRefreshing
       /\ (isRefreshing /\ linkDatabase' # linkDatabase) => cycle' # cycle]_vars

\* C2: at most one cycle runs at a time.  A call of refreshAllLinks that
\* finds isRefreshing true, from the scheduled trigger or from the timeout,
\* prints the skip and changes neither the guard nor the frame of the running
\* cycle (no probe, no re-resolution, no publish) nor the registry (after a
\* drain it holds the drained uploads and nothing else changed); and a cycle
\* starts only in the step of a trigger that found isRefreshing false, so a
\* dropped call is not run later.
C2_GuardedCycle ==
    /\ [](hist.activeCycles <= 1 /\ (isRefreshing <=> hist.activeCycles = 1)
          /\ (isRefreshing <=> cycle.pc # "idle"))
    /\ [][/\ (InvokeStep /\ isRefreshing) =>
                /\ ~CycleStarts
                /\ cycle' = cycle
                /\ isRefreshing'
                /\ linkDatabase' = IF DrainStep THEN Drained(linkDatabase, pendingUploads)
                                   ELSE linkDatabase
                /\ out' = <<SkipLine>>
          /\ CycleStarts => (InvokeStep /\ ~isRefreshing)]_vars

\* A trigger was dropped while a cycle waits for a probe.
C2_Witness == Printed(SkipLine) /\ isRefreshing /\ cycle.pc = "probe"

\* C3: every id the allocator returns differs from every id it returned before.
C3_IdsNeverReused == [][AllocateStep => NewId \notin hist.issued]_vars

\* The id with the number n.
LinkId(n) == Mov \o PadStart(DecStr(n), 3, Chr0)
Consecutive(ids) ==
    \E first \in 1..(MaxUrls + 1) : \A k \in 1..Len(ids) : ids[k] = LinkId(first + k - 1)

\* C4: the ids one request pushes are pairwise distinct and consecutive.
C4_BatchIdsConsecutive ==
    [][\A c \in Conns :
           (req[c].pc = "convert" /\ AllocateStep) =>
               Consecutive(Append(req[c].results, NewId))]_vars

Last(seq) == seq[Len(seq)]

\* C5: at most one timeout is outstanding, and it is the one the last call of
\* scheduleBatchUpload armed, due BATCH_WINDOW_MINUTES after that call.  The
\* pending uploads of a burst (calls that each found the timeout of the call
\* before still outstanding) are merged once, BATCH_WINDOW_MINUTES after the
\* last call of the burst: not before the timeout ran, and exactly once when
\* it has run and a request of the burst pushed a URL.
C5_DebounceRearms ==
    /\ Cardinality(timers) <= 1
    /\ \A t \in timers :
           /\ t.handle = refreshTimer
           /\ t.due = Last(hist.arms) + BATCH_WINDOW_MINUTES
           /\ hist.drains = <<>>
    /\ Len(hist.drains) <= 1
    /\ hist.drains # <<>> => hist.drains = <<Last(hist.arms) + BATCH_WINDOW_MINUTES>>
    /\ (timers = {} /\ hist.carried) =>
           hist.drains = <<Last(hist.arms) + BATCH_WINDOW_MINUTES>>

\* Requests answered at minutes 0 and 2, one drain at minute 7.
C5_Witness ==
    /\ hist.arms = <<0, 2>>
    /\ hist.carried
    /\ hist.drains = <<7>>
    /\ timers = {}
    /\ now = 7

\* A step of the upload handler.
UploadStep == req' # req \/ Printed("200")'

\* C6: a submission touches the pending uploads and the timeout, never the
\* registry: no step of the upload handler changes the registry, and an
\* entry that is pending is not in the registry, also while a cycle runs.
C6_SubmissionFrame ==
    /\ [](\A k \in 1..Len(pendingUploads) :
              pendingUploads[k].data.originalUrl \notin Entries(linkDatabase))
    /\ [][UploadStep => linkDatabase' = linkDatabase]_vars

\* An upload is pending beside a registry that holds entries, a cycle waiting
\* for a probe.
C6_Witness ==
    /\ Len(pendingUploads) > 0
    /\ Len(linkDatabase) > 0
    /\ isRefreshing
    /\ cycle.pc = "probe"
    /\ Printed("200")

BrokenUrls(c) == {c.brokenLinks[k].originalUrl : k \in 1..Len(c.brokenLinks)}

\* C7: when a cycle ends, every entry in the registry had a successful probe
\* in that cycle or was not in the registry when the cycle began, and no
\* entry the cycle found broken is in the registry.
C7_HealthyOrNew ==
    [][CycleEnds =>
          /\ \A u \in Entries(linkDatabase') : u \in cycle.okUrls \/ u \notin cycle.startUrls
          /\ BrokenUrls(cycle) \cap Entries(linkDatabase') = {}]_vars

\* A cycle about to end that pruned an entry, kept one it probed and holds one
\* that was merged while it ran.
C7_Witness ==
    /\ cycle.pc = "putContent"
    /\ BrokenUrls(cycle) # {}
    /\ cycle.okUrls \cap Entries(linkDatabase) # {}
    /\ Entries(linkDatabase) \ cycle.startUrls # {}

\* The step prunes the key id, whose entry the health check of the cycle
\* marked broken.
PrunesBroken(id) ==
    /\ cycle.pc \in {"idle", "probe"}
    /\ cycle'.pc \in {"resolve", "getContent"}
    /\ \E k \in 1..Len(cycle'.brokenLinks) :
           /\ cycle'.brokenLinks[k].id = id
           /\ cycle'.brokenLinks[k].originalUrl = Get(linkDatabase, id).originalUrl

\* C8: an entry stays in the registry under its id, with its originalUrl,
\* until the health check of a cycle marks it broken.
C8_EntryStable ==
    [][\A id \in Keys(linkDatabase) :
           \/ /\ Has(linkDatabase', id)
              /\ Get(linkDatabase', id).originalUrl = Get(linkDatabase, id).originalUrl
           \/ PrunesBroken(id)]_vars

\* A step of the re-resolution loop, for the entry cycle.i of its snapshot.
ResolveStep == cycle.pc = "resolve" /\ cycle' # cycle
ConversionError == "YouTube conversion error"

\* C9: a re-resolution never removes a key; when it fails the registry is
\* unchanged, when it succeeds streamUrl and lastRefreshed of that id are
\* overwritten and nothing else changes; and a key leaves the registry only
\* in the prune of a cycle that listed it as broken.
C9_ResolveFrame ==
    [][/\ ResolveStep =>
             LET e == cycle.entries[cycle.i]
             IN  /\ Keys(linkDatabase') = Keys(linkDatabase)
                 /\ IF Printed(ConversionError)'
                    THEN linkDatabase' = linkDatabase
                    ELSE /\ Get(linkDatabase', e.id) =
                                [Get(linkDatabase, e.id) EXCEPT
                                     !.streamUrl = StreamOf(e.data.originalUrl),
                                     !.lastRefreshed = now]
                         /\ \A id \in Keys(linkDatabase) \ {e.id} :
                                Get(linkDatabase', id) = Get(linkDatabase, id)
       /\ \A id \in Keys(linkDatabase) \ Keys(linkDatabase') :
              /\ cycle.pc \in {"idle", "probe"}
              /\ \E k \in 1..Len(cycle'.brokenLinks) : cycle'.brokenLinks[k].id = id]_vars

\* A re-resolution has just failed for an entry that keeps its streamUrl.
C9_Witness ==
    /\ Printed(ConversionError)
    /\ pendingUploads = <<>>
    /\ cycle.pc \in {"resolve", "getContent"}
    /\ cycle.i >= 2
    /\ Has(linkDatabase, cycle.entries[cycle.i - 1].id)
    /\ Get(linkDatabase, cycle.entries[cycle.i - 1].id).streamUrl # NoStream

\* The keys encode can give the id.
Tokens(id) == {encode(id, random) : random \in Suffixes}
PublishStep == cycle'.publishCalls > cycle.publishCalls

\* C10: a cycle that runs calls the publisher once, after the prune and the
\* last re-resolution, with one key per entry of the registry as it is at the
\* call, the key an encoding of the entry's id and the url its streamUrl, and
\* no entry pruned in the cycle among them; when the write has settled, failed
\* or not, the cycle ends without another call and the registry is unchanged.
C10_PublishOnce ==
    [][/\ PublishStep =>
             /\ cycle'.pc = "getContent"
             /\ cycle'.i > Len(cycle'.entries)
             /\ Cardinality(cycle'.mapping) = Len(linkDatabase')
             /\ \A k \in 1..Len(linkDatabase') :
                    \E m \in cycle'.mapping :
                        /\ m.key \in Tokens(linkDatabase'[k].id)
                        /\ m.url = linkDatabase'[k].data.streamUrl
                        /\ m.title = linkDatabase'[k].data.title
             /\ BrokenUrls(cycle') \cap Entries(linkDatabase') = {}
       /\ CycleEnds => cycle.publishCalls = 1
       /\ (cycle.pc = "putContent" /\ cycle' # cycle) =>
              (CycleEnds /\ linkDatabase' = linkDatabase)]_vars

\* The publisher is called with a mapping after the cycle pruned an entry.
C10_Witness ==
    /\ cycle.pc = "getContent"
    /\ cycle.publishCalls = 1
    /\ cycle.brokenLinks # <<>>
    /\ cycle.mapping # {}

\* The health phase of a cycle ends: checkAllLinks returns.
HealthEnds == cycle.pc \in {"idle", "probe"} /\ cycle'.pc \in {"resolve", "getContent"}
\* The entries checkAllLinks goes through: the registry as it is at the call.
HealthSnapshot ==
    IF cycle.pc # "idle" THEN cycle.entries
    ELSE IF DrainStep THEN Drained(linkDatabase, pendingUploads) ELSE linkDatabase
\* The reasons of a failed probe: the message of the error axios rejected
\* with, or the status of a response that is not 200.
ProbeErrors == {"timeout of 10000ms exceeded", "Request failed with status code"}
ProbeReason(reason) ==
    \/ reason.text \in ProbeErrors /\ reason.status = 0
    \/ reason.text = "HTTP" /\ reason.status \in 201..299

\* C11: a cycle sends the notification once when its health phase found a
\* broken entry and not at all when it found none; the notification is the
\* list of the entries found broken, each once, with the id, title and
\* originalUrl of the entry and as reason 'No stream URL' for an entry without
\* streamUrl (which is never probed) and else the error of the probe or
\* 'HTTP <status>'; every entry of the health phase is active or listed.
C11_NotifyOnce ==
    /\ [](cycle.notifications =
              IF cycle.pc \in {"resolve", "getContent", "putContent"} /\ cycle.brokenLinks # <<>>
              THEN <<cycle.brokenLinks>> ELSE <<>>)
    /\ [](cycle.pc = "probe" => cycle.entries[cycle.i].data.streamUrl # NoStream)
    /\ [][HealthEnds =>
             LET snap == HealthSnapshot
                 broken == cycle'.brokenLinks
             IN  /\ Len(broken) + cycle'.results.active = Len(snap)
                 /\ \A k, l \in 1..Len(broken) : broken[k].id = broken[l].id => k = l
                 /\ \A k \in 1..Len(broken) :
                        \E j \in 1..Len(snap) :
                            /\ broken[k].id = snap[j].id
                            /\ broken[k].title = snap[j].data.title
                            /\ broken[k].originalUrl = snap[j].data.originalUrl
                            /\ IF snap[j].data.streamUrl = NoStream
                               THEN broken[k].reason = NoStreamReason
                               ELSE ProbeReason(broken[k].reason)]_vars

\* One notification that lists an entry without streamUrl and an entry whose
\* probe was answered with a status that is not 200.
C11_Witness ==
    /\ cycle.pc \in {"resolve", "getContent"}
    /\ cycle.notifications = <<cycle.brokenLinks>>
    /\ \E k, l \in 1..Len(cycle.brokenLinks) :
           /\ cycle.brokenLinks[k].reason = NoStreamReason
           /\ cycle.brokenLinks[l].reason.text = "HTTP"

RefreshError == "Refresh error"

\* C12: a cycle that set isRefreshing to true sets it back to false, whatever
\* the probes, the re-resolutions and the publish return; none of them ends
\* the cycle through the catch block of refreshAllLinks.
C12_GuardCleared ==
    /\ (isRefreshing ~> ~isRefreshing)
    /\ [](~Printed(RefreshError))

\* A cycle has just ended with the guard cleared after its publish failed.
C12_Witness == ~isRefreshing /\ Printed("GitHub update failed") /\ hist.activeCycles = 0

\* The upload handler answers with an error.
RejectStep == Printed("401")' \/ Printed("400")'

\* C15: a request with a wrong password, or with links that is no array, is
\* answered with an error and nothing else happens: the pending uploads, the
\* registry, the timeout and its handle stay as they are, no id is allocated
\* and no lookup starts.
C15_RejectedWhole ==
    [][RejectStep =>
          /\ out' \in {<<"401">>, <<"400">>}
          /\ UNCHANGED <<linkDatabase, pendingUploads, refreshTimer, timers, req, cycle,
                         isRefreshing, hist>>]_vars

\* A request was rejected while uploads are pending and the timeout is armed.
C15_Witness ==
    /\ Printed("400")
    /\ Len(pendingUploads) > 0
    /\ timers # {}

\* C16: the step in which the timeout merges the pending uploads leaves none
\* pending and every one of them in the registry under its id (or pruned
\* under that id by the health phase of the cycle the same step starts), and
\* it calls refreshAllLinks, which starts a cycle or prints the skip.
C16_DrainAtomic ==
    [][DrainStep =>
          /\ pendingUploads' = <<>>
          /\ \A k \in 1..Len(pendingUploads) :
                 LET id == pendingUploads[k].id
                     url == pendingUploads[k].data.originalUrl
                 IN  \/ Has(linkDatabase', id) /\ Get(linkDatabase', id).originalUrl = url
                     \/ \E b \in 1..Len(cycle'.brokenLinks) :
                            /\ cycle'.brokenLinks[b].id = id
                            /\ cycle'.brokenLinks[b].originalUrl = url
          /\ CycleStarts \/ Printed(SkipLine)']_vars

\* C17: the phases of a cycle follow each other: a key is pruned only in the
\* step in which the health phase ends, when every entry of its snapshot has
\* been counted and every one with a streamUrl probed; from the first
\* re-resolution on nothing is probed or pruned; the publisher is called when
\* the last re-resolution is done; and the summary is printed in the step
\* that ends the cycle, after the publish has settled.
C17_PhaseOrder ==
    [][/\ (Keys(linkDatabase) \ Keys(linkDatabase') # {}) =>
              /\ HealthEnds
              /\ cycle'.results.total = Len(HealthSnapshot)
              /\ cycle'.results.active + cycle'.results.broken = Len(HealthSnapshot)
       /\ HealthEnds => cycle'.results.active + Len(cycle'.brokenLinks) = Len(HealthSnapshot)
       /\ cycle.pc = "probe" => cycle'.pc \in {"probe", "resolve", "getContent"}
       /\ cycle.pc = "resolve" =>
              /\ cycle'.pc \in {"resolve", "getContent"}
              /\ cycle'.results = cycle.results
              /\ cycle'.brokenLinks = cycle.brokenLinks
              /\ cycle'.notifications = cycle.notifications
       /\ PublishStep => (cycle.pc # "getContent" /\ cycle'.i > Len(cycle'.entries))
       /\ cycle.pc = "getContent" => cycle'.pc \in {"getContent", "putContent"}
       /\ cycle.pc = "putContent" => cycle'.pc \in {"putContent", "idle"}
       /\ CycleEnds <=> Printed(Summary)'
       /\ CycleEnds => cycle.pc = "putContent"]_vars

\* A cycle waits for its publish after it probed an entry that is active,
\* pruned one that is broken and went through a re-resolution.
C17_Witness ==
    /\ cycle.pc = "putContent"
    /\ cycle.results.active > 0
    /\ cycle.results.broken > 0
    /\ Len(cycle.entries) > 0
    /\ cycle.i > Len(cycle.entries)

\* No request is between its first lookup and its response.
NoRequestInFlight == \A c \in Conns : req[c].pc = "idle"

\* C19: when uploads are pending and no request is in flight, a timeout is
\* outstanding; and uploads that are pending are merged in the end.
C19_NoneStranded ==
    /\ []((Len(pendingUploads) > 0 /\ NoRequestInFlight) => timers # {})
    /\ (Len(pendingUploads) > 0 ~> pendingUploads = <<>>)

\* Two uploads are pending, their request answered, a timeout outstanding
\* while a cycle runs.
C19_Witness ==
    /\ Len(pendingUploads) = 2
    /\ NoRequestInFlight
    /\ Cardinality(timers) = 1
    /\ isRefreshing

\* C20: no mapping the publisher is called with holds an entry without a
\* stream URL.
C20_NoNullPublished ==
    [][PublishStep => \A m \in cycle'.mapping : m.url # NoStream]_vars

\* ---------------------------------------------------------- the status query
StatusRoute == "GET /api/status"

\* The object the handler of /api/status passes to res.json, of which the
\* fields read from the coordinator's variables.
statusBody ==
    [totalLinks |-> Len(linkDatabase),
     pendingUploads |-> Len(pendingUploads),
     isRefreshing |-> isRefreshing,
     nextRefresh |-> IF refreshTimer # 0 THEN "Scheduled" ELSE "None"]

\* app.get('/api/status'): its first statement reads LinkCleaner, which the
\* file neither declares nor requires, so it throws a ReferenceError before
\* res.json is reached and express answers 500.
StatusRequest ==
    /\ out' = <<StatusRoute, "500">>
    /\ UNCHANGED <<codec, now, linkDatabase, pendingUploads, isRefreshing, refreshTimer, timers,
                   req, cycle, hist>>

\* The coordinator of NextFair, with status queries.
NextStatus ==
    \/ StatusRequest
    \/ NextFair

SpecStatus == Init /\ [][NextStatus]_vars

\* A status query is answered.
StatusStep == Len(out') > 0 /\ out'[1] = StatusRoute

\* C14: a status query is answered with a result, which reports the size of
\* the registry, the number of pending uploads, isRefreshing, and a timeout
\* as scheduled exactly when one is outstanding.
C14_StatusReports ==
    [][StatusStep =>
          /\ Printed("200")'
          /\ statusBody.totalLinks = Len(linkDatabase)
          /\ statusBody.pendingUploads = Len(pendingUploads)
          /\ statusBody.isRefreshing = isRefreshing
          /\ (statusBody.nextRefresh = "Scheduled" <=> timers # {})]_vars

\* ------------------------------------------------------ the codec on its own
\* The ids the codec is given: 'mov' and a number padded to three digits;
\* the two long ones have a base64 form that ends in '==' and in '='.
CodecIds == {LinkId(n) : n \in 1..MaxIdNumber} \cup {LinkId(1000), LinkId(10000)}

\* What Math.random().toString(36).substring(2, 5) returns for some values of
\* Math.random(): "x7q", "0k9" for 1/64, "4i" for 1/8, "i" for 1/2, "" for 0.
CodecSuffixes == Suffixes \cup {<<48, 107, 57>>, <<52, 105>>, <<>>}

\* Tokens that no call of encode for an id of the registry returned: the empty
\* string, "ab" and "abc", "!!!!x7q", and a token of mov999.
ForeignTokens ==
    {<<>>, <<97, 98>>, <<97, 98, 99>>, <<33, 33, 33, 33, 120, 55, 113>>,
     encode(LinkId(999), <<120, 55, 113>>)}

\* LinkEncoder.encode(id) is called.
EncodeCall(id, random) ==
    /\ codec' = [IdleCodec EXCEPT !.pc = "encoded", !.id = id, !.token = encode(id, random)]
    /\ UNCHANGED <<now, linkDatabase, pendingUploads, isRefreshing, refreshTimer, timers, req,
                   cycle, out, hist>>

\* LinkEncoder.decode is called with the token encode returned.
DecodeCall ==
    /\ codec.pc = "encoded"
    /\ codec' = [codec EXCEPT !.pc = "decoded", !.decoded = decode(codec.token)]
    /\ UNCHANGED <<now, linkDatabase, pendingUploads, isRefreshing, refreshTimer, timers, req,
                   cycle, out, hist>>

\* LinkEncoder.decode is called with a token from elsewhere.
DecodeToken(token) ==
    /\ codec' = [IdleCodec EXCEPT !.pc = "decodedToken", !.token = token,
                                  !.decoded = decode(token)]
    /\ UNCHANGED <<now, linkDatabase, pendingUploads, isRefreshing, refreshTimer, timers, req,
                   cycle, out, hist>>

NextCodec ==
    \/ \E id \in CodecIds, random \in CodecSuffixes : EncodeCall(id, random)
    \/ DecodeCall
    \/ \E token \in ForeignTokens : DecodeToken(token)

SpecCodec == Init /\ [][NextCodec]_vars

\* C13: decode(encode(id)) is id for every id and every suffix encode can
\* draw, and the suffix encode appends has exactly three characters.
C13_RoundTrip ==
    /\ codec.pc = "decoded" =>
           (~codec.decoded.isNull /\ codec.decoded.value = codec.id)
    /\ codec.pc \in {"encoded", "decoded"} =>
           Len(codec.token) = Len(SelectSeq(Base64(codec.id), LAMBDA ch : ch # Pad)) + 3

\* C18: decode reports a failure, and returns no value, for a token that is
\* shorter than four characters, whose payload is not base64, or that decodes
\* to an id that was never allocated.
C18_DecodeFails == codec.pc = "decodedToken" => codec.decoded.isNull

====
